---------------------------- MODULE Spec2Model ----------------------------
(***************************************************************************)
(* A model of bets-to-sheets' odds backend: src/odds.js (fromAmerican,     *)
(* normalizeMarket, pickOutcome, fetchOddsAndNormalize) and the GET /odds  *)
(* handler of src/src/index.js that calls it.                              *)
(*                                                                         *)
(* JavaScript values are tagged records, so that the conversions the code  *)
(* relies on (Number(), String(), truthiness, ==, >) are computed and not  *)
(* assumed.  JavaScript strings are sequences of one-character strings.    *)
(* Names that the code only ever reads through `x || ""` (team, side,      *)
(* market, sportKey, outcome and market names, team names of an event) are *)
(* bare character sequences, the empty one standing for a missing value.   *)
(* Decimal odds are integers in units of 1/DecimalScale and implied        *)
(* percentages in units of 1/PctScale, which is exactly what toFixed(4)    *)
(* and toFixed(2) leave.                                                   *)
(***************************************************************************)
EXTENDS Integers, Sequences, FiniteSets, TLC

\* ------------------------------------------------------------------ bounds
\* The longest bookmakers array of the event of an upstream response.
MaxBookmakers == 2
\* The longest outcomes array given to pickOutcome on its own.
MaxOutcomes == 3

\* ---------------------------------------------------------- JavaScript values
Undef == [t |-> "undefined"]
Null == [t |-> "null"]
NaN == [t |-> "NaN"]
Num(n) == [t |-> "number", n |-> n]
Str(s) == [t |-> "string", s |-> s]

\* x == null
IsNullish(x) == x.t \in {"undefined", "null"}

\* Boolean(x), the test of `if (x)` and of `x || y`
Truthy(x) ==
  CASE x.t = "number" -> x.n # 0
    [] x.t = "string" -> x.s # <<>>
    [] x.t \in {"object", "array"} -> TRUE
    [] OTHER -> FALSE

DigitChars == <<"0", "1", "2", "3", "4", "5", "6", "7", "8", "9">>

IsDigit(c) == \E k \in 1..10 : DigitChars[k] = c

DigitValue(c) == (CHOOSE k \in 1..10 : DigitChars[k] = c) - 1

RECURSIVE DigitsValue(_, _)
\* The value of a string of decimal digits, read left to right.
DigitsValue(s, acc) ==
  IF s = <<>> THEN acc ELSE DigitsValue(Tail(s), 10 * acc + DigitValue(Head(s)))

\* Number(s) of a string: "" is 0, an optionally signed run of digits is its
\* value, anything else is NaN.
StringToNumber(s) ==
  LET body == IF s # <<>> /\ Head(s) \in {"-", "+"} THEN Tail(s) ELSE s
      neg == s # <<>> /\ Head(s) = "-"
  IN  IF s = <<>> THEN Num(0)
      ELSE IF body # <<>> /\ \A k \in 1..Len(body) : IsDigit(body[k])
           THEN Num(IF neg THEN 0 - DigitsValue(body, 0) ELSE DigitsValue(body, 0))
           ELSE NaN

\* Number(x)
ToNumber(x) ==
  CASE x.t = "undefined" -> NaN
    [] x.t = "null" -> Num(0)
    [] x.t = "string" -> StringToNumber(x.s)
    [] OTHER -> x

\* Number.isFinite(x) of a number value
IsFinite(x) == x.t = "number"

RECURSIVE NatToString(_)
NatToString(n) ==
  IF n < 10 THEN <<DigitChars[n + 1]>>
  ELSE NatToString(n \div 10) \o <<DigitChars[(n % 10) + 1]>>

\* String(x) of a number or a string
ToStr(x) ==
  CASE x.t = "string" -> x.s
    [] x.t = "number" -> IF x.n < 0 THEN <<"-">> \o NatToString(0 - x.n) ELSE NatToString(x.n)
    [] x.t = "NaN" -> <<"N", "a", "N">>
    [] x.t = "null" -> <<"n", "u", "l", "l">>
    [] OTHER -> <<"u", "n", "d", "e", "f", "i", "n", "e", "d">>

\* a > b of the relational operator, for the values fromAmerican returns: two
\* strings compare as strings (the empty string is the least one), anything
\* else compares as numbers, and a comparison with NaN is false.
JsGreater(a, b) ==
  IF a.t = "string" /\ b.t = "string" THEN a.s # <<>> /\ b.s = <<>>
  ELSE LET x == ToNumber(a)
           y == ToNumber(b)
       IN  x.t = "number" /\ y.t = "number" /\ x.n > y.n

UpperChars == <<"A", "B", "C", "D", "E", "F", "G", "H", "I", "J", "K", "L", "M",
                "N", "O", "P", "Q", "R", "S", "T", "U", "V", "W", "X", "Y", "Z">>

LowerChars == <<"a", "b", "c", "d", "e", "f", "g", "h", "i", "j", "k", "l", "m",
                "n", "o", "p", "q", "r", "s", "t", "u", "v", "w", "x", "y", "z">>

UpperSet == {UpperChars[j] : j \in 1..26}

\* The lower-case letter of each upper-case one.
LowerOf == [c \in UpperSet |-> LowerChars[CHOOSE j \in 1..26 : UpperChars[j] = c]]

\* String.prototype.toLowerCase
ToLower(s) == [k \in 1..Len(s) |-> IF s[k] \in UpperSet THEN LowerOf[s[k]] ELSE s[k]]

\* String.prototype.includes
Includes(s, sub) ==
  \E k \in 0..(Len(s) - Len(sub)) : SubSeq(s, k + 1, k + Len(sub)) = sub

\* ------------------------------------------------------------- fromAmerican
\* The scale of Decimal: toFixed(4).
DecimalScale == 10000
\* The scale of Implied %: toFixed(2).
PctScale == 100

Abs(n) == IF n < 0 THEN 0 - n ELSE n

\* a / b rounded to the nearest integer, halves up (a >= 0, b > 0): toFixed.
RoundDiv(a, b) == (2 * a + b) \div (2 * b)

fromAmerican(am) ==
  LET n == ToNumber(am)
  IN  IF ~IsFinite(n) \/ n.n = 0 THEN [decimal |-> Str(<<>>), impliedPct |-> Str(<<>>)]
      ELSE [decimal |->
              Num(IF n.n > 0
                  THEN RoundDiv(DecimalScale * (100 + n.n), 100)
                  ELSE RoundDiv(DecimalScale * (Abs(n.n) + 100), Abs(n.n))),
            impliedPct |->
              Num(IF n.n > 0
                  THEN RoundDiv(100 * PctScale * 100, n.n + 100)
                  ELSE RoundDiv(100 * PctScale * Abs(n.n), Abs(n.n) + 100))]

\* ----------------------------------------------------------- normalizeMarket
H2H == <<"h", "2", "h">>
SPREADS == <<"s", "p", "r", "e", "a", "d", "s">>
TOTALS == <<"t", "o", "t", "a", "l", "s">>

normalizeMarket(m) ==
  LET s == ToLower(m)
  IN  IF s \in {<<"m", "l">>, <<"m", "o", "n", "e", "y", "l", "i", "n", "e">>, H2H}
        THEN H2H
      ELSE IF s \in {<<"s", "p", "r", "e", "a", "d">>, SPREADS, <<"a", "t", "s">>}
        THEN SPREADS
      ELSE IF s \in {<<"t", "o", "t", "a", "l">>, TOTALS, <<"o", "/", "u">>, <<"o", "u">>}
        THEN TOTALS
      ELSE IF s # <<>> THEN s ELSE H2H


\* --------------------------------------------------------------- pickOutcome
Arr(a) == [t |-> "array", a |-> a]

\* An outcome of an upstream market.
Outcome(name, point, price) ==
  [t |-> "object", name |-> name, point |-> point, price |-> price]

\* o?.name || ""
NameOf(o) == IF IsNullish(o) THEN <<>> ELSE o.name
\* o?.point
PointOf(o) == IF IsNullish(o) THEN Undef ELSE o.point
\* o?.price
PriceOf(o) == IF IsNullish(o) THEN Undef ELSE o.price

Infinity == [t |-> "Infinity"]

\* The comparison with <= in place of <.
CloserOrEqual(diff, bestDiff) ==
  diff.t = "number" /\ (bestDiff.t = "Infinity" \/ diff.n <= bestDiff.n)

\* diff < bestDiff with diff a number or NaN, bestDiff a number or Infinity
Closer(diff, bestDiff) ==
  diff.t = "number" /\ (bestDiff.t = "Infinity" \/ diff.n < bestDiff.n)

\* Math.abs(p - want) of a finite p
AbsDiff(p, want) == IF want.t = "number" THEN Num(Abs(p.n - want.n)) ELSE NaN

RECURSIVE NearestLoop(_, _, _, _)
\* The for loop of nearestByPoint over what is left of arr.
NearestLoop(arr, want, best, bestDiff) ==
  IF arr = <<>> THEN best
  ELSE LET o == Head(arr)
           p == ToNumber(PointOf(o))
       IN  IF ~IsFinite(p) THEN NearestLoop(Tail(arr), want, best, bestDiff)
           ELSE IF Closer(AbsDiff(p, want), bestDiff)
                THEN NearestLoop(Tail(arr), want, o, AbsDiff(p, want))
                ELSE NearestLoop(Tail(arr), want, best, bestDiff)

\* flt is the lower-cased name the filter keeps: both callers filter by name.
nearestByPoint(outcomes, flt, want) ==
  LET arr == SelectSeq(outcomes, LAMBDA o : ToLower(NameOf(o)) = flt)
  IN  IF arr = <<>> THEN Null
      ELSE IF IsNullish(want) THEN arr[1]
      ELSE LET best == NearestLoop(arr, want, Null, Infinity)
           IN  IF best # Null THEN best ELSE arr[1]

\* outcomes.find(o => lower(o?.name || "") === lower(name || ""))
byName(outcomes, name) ==
  LET hits == SelectSeq(outcomes, LAMBDA o : ToLower(NameOf(o)) = ToLower(name))
  IN  IF hits = <<>> THEN Undef ELSE hits[1]

\* The side totals are filtered by.
wantedSide(side) ==
  IF ToLower(side) # <<>> /\ Head(ToLower(side)) = "u"
  THEN <<"u", "n", "d", "e", "r">> ELSE <<"o", "v", "e", "r">>

pickOutcome(marketKey, outcomes, crit) ==
  IF outcomes.t # "array" \/ outcomes.a = <<>> THEN Null
  ELSE IF marketKey = H2H
    THEN IF crit.team # <<>> /\ Truthy(byName(outcomes.a, crit.team))
         THEN byName(outcomes.a, crit.team)
         ELSE outcomes.a[1]
  ELSE IF marketKey = SPREADS
    THEN nearestByPoint(outcomes.a, ToLower(crit.team), ToNumber(crit.spreadPoint))
  ELSE IF marketKey = TOTALS
    THEN nearestByPoint(outcomes.a, wantedSide(crit.side), ToNumber(crit.totalPoint))
  ELSE outcomes.a[1]


\* ------------------------------------------------- fetchOddsAndNormalize: state
VARIABLES
  ODDS_API_KEY,  \* module constant of odds.js, read from the environment at load
  pc,            \* where the invocation of fetchOddsAndNormalize stands
  req,           \* its argument
  resp,          \* what the outbound request settled with (Undef before)
  marketKey,     \* local marketKey
  best,          \* local best
  bookmakers,    \* ev.bookmakers, the array the for loop runs over
  i,             \* the index of the loop's next element, from 1
  requests,      \* calls of fetch() made by this invocation
  out,           \* the mapping returned
  seen,          \* an earlier invocation the caller kept: its req, resp and out
  pickIn,        \* pickOutcome on its own: the arguments
  pickOut,       \* pickOutcome on its own: the value returned
  pickPc         \* pickOutcome on its own: "ready", "picked" or "off"

vars == <<ODDS_API_KEY, pc, req, resp, marketKey, best, bookmakers, i, requests,
          out, seen, pickIn, pickOut, pickPc>>

fetchVars == <<ODDS_API_KEY, pc, req, resp, marketKey, best, bookmakers, i,
               requests, out, seen>>

pickVars == <<pickIn, pickOut, pickPc>>

\* process.env.ODDS_API_BASE || "https://api.the-odds-api.com": never empty
ODDS_API_BASE ==
  <<"h", "t", "t", "p", "s", ":", "/", "/", "a", "p", "i", ".", "t", "h", "e", "-",
    "o", "d", "d", "s", "-", "a", "p", "i", ".", "c", "o", "m">>

\* The record best holds.
Best(book, american, conv, pickedPoint) ==
  [t |-> "object", book |-> book, american |-> ToStr(american),
   decimal |-> conv.decimal, impliedPct |-> conv.impliedPct,
   pickedPoint |-> pickedPoint]

\* let best = null; if (line) { ... }
Seed(line) ==
  IF Truthy(line) THEN Best(Null, line, fromAmerican(line), Undef) ELSE Null

\* The eligibility test without the API key.
canFetchNoKey(key, r) ==
  /\ ODDS_API_BASE # <<>>
  /\ r.sportKey # <<>>
  /\ r.books.t = "array"
  /\ r.books.a # <<>>

canFetch(key, r) ==
  /\ ODDS_API_BASE # <<>>
  /\ key # <<>>
  /\ r.sportKey # <<>>
  /\ r.books.t = "array"
  /\ r.books.a # <<>>

\* events.find(e => home or away team includes teamLower)
findEvent(events, teamLower) ==
  LET hits == SelectSeq(events, LAMBDA e :
                 \/ Includes(ToLower(e.home_team), teamLower)
                 \/ Includes(ToLower(e.away_team), teamLower))
  IN  IF hits = <<>> THEN Undef ELSE hits[1]

\* Whether the selection of ev throws a TypeError: events is null, or it has no
\* find method and a team is given.
selectThrows(events, team) ==
  \/ IsNullish(events)
  \/ events.t # "array" /\ ToLower(team) # <<>>

\* const ev = (teamLower ? events.find(...) : events[0]) || events[0]
selectEvent(events, team) ==
  LET first == IF events.t = "array" /\ events.a # <<>> THEN events.a[1] ELSE Undef
      found == IF ToLower(team) # <<>> THEN findEvent(events.a, ToLower(team)) ELSE first
  IN  IF Truthy(found) THEN found ELSE first

\* (b.markets || []).find(m => lower(String(m?.key || "")) === marketKey)
findMarket(b, mk) ==
  LET ms == IF Truthy(b.markets) THEN b.markets.a ELSE <<>>
      hits == SelectSeq(ms, LAMBDA m : ToLower(m.key) = mk)
  IN  IF hits = <<>> THEN Undef ELSE hits[1]

\* The comparison with >= in place of >, and with no comparison at all.
BetterOrEqual(b, decimal) == b = Null \/ ~JsGreater(b.decimal, decimal)

AnyIsBetter(b, decimal) == TRUE

\* !best || decimal > best.decimal
Better(b, decimal) == b = Null \/ JsGreater(decimal, b.decimal)

\* One pass of the for loop's body over bookmaker b (an object): the value of
\* best after it.
scanOne(b, mk, r, bst) ==
  LET m == findMarket(b, mk)
      outcome == pickOutcome(mk, m.outcomes,
                             [team |-> r.team, side |-> r.side,
                              spreadPoint |-> r.spreadPoint,
                              totalPoint |-> r.totalPoint])
      american == PriceOf(outcome)
      conv == fromAmerican(american)
  IN  IF ~Truthy(m) THEN bst
      ELSE IF IsNullish(american) THEN bst
      ELSE IF Better(bst, conv.decimal)
           THEN Best(Str(b.key), american, conv, PointOf(outcome))
           ELSE bst

\* best.impliedPct + "%": a number prints without trailing zeros
PctString(v) ==
  IF v.t = "string" THEN v.s \o <<"%">>
  ELSE LET w == v.n \div PctScale
           f == v.n % PctScale
       IN  NatToString(w)
           \o (IF f = 0 THEN <<>>
               ELSE <<".", DigitChars[(f \div 10) + 1]>>
                    \o (IF f % 10 = 0 THEN <<>> ELSE <<DigitChars[(f % 10) + 1]>>))
           \o <<"%">>

EmptyMapping == [k \in {} |-> Undef]

\* const out = {}; if (best) { ... }; return out
BuildOut(bst, mk) ==
  IF bst = Null THEN EmptyMapping
  ELSE (IF Truthy(bst.book) THEN "Book" :> bst.book ELSE EmptyMapping)
       @@ ("Odds (Am)" :> bst.american)
       @@ ("Decimal" :> bst.decimal)
       @@ ("Implied %" :> PctString(bst.impliedPct))
       @@ (IF mk \in {SPREADS, TOTALS} /\ ~IsNullish(bst.pickedPoint)
           THEN "Point" :> bst.pickedPoint ELSE EmptyMapping)


\* ------------------------------------------------------------------- inputs
Jets == <<"J", "e", "t", "s">>
JETS == <<"J", "E", "T", "S">>
Bills == <<"B", "i", "l", "l", "s">>
NYJets == <<"N", "Y", " ", "J", "e", "t", "s">>
Pats == <<"P", "a", "t", "s">>
Over == <<"O", "v", "e", "r">>
UNDER == <<"U", "N", "D", "E", "R">>
Nfl == <<"n", "f", "l">>
Key == <<"k">>
BookKeys == <<<<"d", "k">>, <<"f", "d">>, <<"m", "g", "m">>, <<"c", "z", "r">>>>

Request(sportKey, market, team, side, spreadPoint, totalPoint, books, line) ==
  [sportKey |-> sportKey, market |-> market, team |-> team, side |-> side,
   spreadPoint |-> spreadPoint, totalPoint |-> totalPoint, books |-> books,
   line |-> line]

\* American odds given as line: absent, a query string, a number, zero, not a
\* number.
Lines == {Undef, Str(<<"1", "2", "0">>), Num(-100), Num(0), Str(<<"a", "b", "c">>)}

\* market, team, side, spreadPoint, totalPoint of the requests explored: the
\* selection criteria a market does not read are left out.
Selections ==
  {<<m, tm, <<>>, Undef, Undef>> :
     m \in {<<>>, <<"M", "L">>, <<"P", "r", "o", "p", "s">>}, tm \in {<<>>, Jets}}
  \cup {<<<<"S", "p", "r", "e", "a", "d">>, tm, <<>>, sp, Undef>> :
          tm \in {<<>>, Jets}, sp \in {Null, Num(3)}}
  \cup {<<<<"O", "/", "U">>, tm, sd, Undef, tp>> :
          tm \in {<<>>, Jets}, sd \in {<<>>, <<"U", "n", "d", "e", "r">>},
          tp \in {Null, Num(3)}}

Requests ==
  {Request(sk, c[1], c[2], c[3], c[4], c[5], bk, ln) :
     sk \in {<<>>, Nfl}, c \in Selections,
     bk \in {Arr(<<>>), Arr(<<BookKeys[1], BookKeys[2]>>)}, ln \in Lines}

\* The name the upstream gives the outcomes of a market.
OutcomeName(mk) == IF mk = TOTALS THEN Over ELSE JETS

Market(key, outcomes) == [t |-> "object", key |-> key, outcomes |-> outcomes]

Bookmaker(key, markets) == [t |-> "object", key |-> key, markets |-> markets]

Event(home, away, bms) ==
  [t |-> "object", home_team |-> home, away_team |-> away, bookmakers |-> bms]

\* Prices of an upstream outcome: odds, zero, a non-numeric string, none.
Prices == {Num(-150), Num(-100), Num(100), Num(0), Str(<<"n", "/", "a">>), Undef}

\* What the k-th entry of an event's bookmakers array can be: null, an object
\* without markets, one that offers another market, and one that offers
\* market mk with a single outcome.
BookmakersAt(k, mk, prices) ==
  {Null, Bookmaker(BookKeys[k], Undef),
   Bookmaker(BookKeys[k],
             Arr(<<Market(<<"z", "z">>, Arr(<<Outcome(JETS, Undef, Num(150))>>))>>))}
  \cup {Bookmaker(BookKeys[k],
                  Arr(<<Market(mk, Arr(<<Outcome(OutcomeName(mk), Undef, p)>>))>>)) :
          p \in prices}
  \cup {Bookmaker(BookKeys[k],
                  Arr(<<Market(mk, Arr(<<Outcome(OutcomeName(mk), Num(3), Num(100))>>))>>))}

RECURSIVE BookmakerLists(_, _, _)
\* The arrays of n bookmakers.
BookmakerLists(n, mk, prices) ==
  IF n = 0 THEN {<<>>}
  ELSE {Append(l, b) : l \in BookmakerLists(n - 1, mk, prices),
                       b \in BookmakersAt(n, mk, prices)}

\* An event that does not mention the Jets, with one bookmaker.
OtherEvent(mk) ==
  Event(Bills, Pats,
        Arr(<<Bookmaker(BookKeys[4],
                        Arr(<<Market(mk, Arr(<<Outcome(OutcomeName(mk), Num(7), Num(150))>>))>>))>>))

Response(kind, events) == [kind |-> kind, events |-> events]

\* What the outbound request can settle with: fetch() rejects, a non-2xx
\* status, a body that is not JSON, or a JSON value.
ResponsesOf(mk, prices) ==
  {Response("reject", Undef), Response("status", Undef), Response("badjson", Undef),
   Response("json", Null), Response("json", [t |-> "object"]),
   Response("json", Arr(<<>>)),
   Response("json", Arr(<<Event(NYJets, Bills, Undef)>>))}
  \cup {Response("json", Arr(pre \o <<Event(NYJets, Bills, Arr(l))>>)) :
          pre \in {<<>>, <<OtherEvent(mk)>>},
          l \in UNION {BookmakerLists(n, mk, prices) : n \in 0..MaxBookmakers}}

Responses(mk) == ResponsesOf(mk, Prices)

\* ------------------------------------------------ fetchOddsAndNormalize: steps
\* The same with best kept from the invocation before when no line is given.
CallKeepBest(r) ==
  /\ pc \in {"idle", "done"}
  /\ req' = r
  /\ resp' = Undef
  /\ best' = IF Truthy(r.line) THEN Seed(r.line) ELSE best
  /\ marketKey' = normalizeMarket(r.market)
  /\ bookmakers' = <<>>
  /\ i' = 1
  /\ out' = EmptyMapping
  /\ requests' = IF canFetch(ODDS_API_KEY, r) THEN 1 ELSE 0
  /\ pc' = IF canFetch(ODDS_API_KEY, r) THEN "awaitFetch" ELSE "build"
  /\ UNCHANGED <<ODDS_API_KEY, seen, pickVars>>

\* The invocation up to its first await: seed, market key, eligibility and,
\* when eligible, the call of fetch(url).  Ineligible, it goes on to the return.
Call(r) ==
  /\ pc \in {"idle", "done"}
  /\ req' = r
  /\ resp' = Undef
  /\ best' = Seed(r.line)
  /\ marketKey' = normalizeMarket(r.market)
  /\ bookmakers' = <<>>
  /\ i' = 1
  /\ out' = EmptyMapping
  /\ requests' = IF canFetch(ODDS_API_KEY, r) THEN 1 ELSE 0
  /\ pc' = IF canFetch(ODDS_API_KEY, r) THEN "awaitFetch" ELSE "build"
  /\ UNCHANGED <<ODDS_API_KEY, seen, pickVars>>

afterFailureDrop(bst) == Null

\* What is left of best when the try block ends early: by an exception, which
\* the catch block only logs, or by a response that is not ok.
afterFailure(bst) == bst

\* The outbound request settles with rsp, and the invocation runs on to the
\* for loop: r.ok, await r.json(), the selection of ev.
Respond(rsp) ==
  /\ pc = "awaitFetch"
  /\ resp' = rsp
  /\ IF rsp.kind # "json" \/ selectThrows(rsp.events, req.team)
     THEN /\ pc' = "build"
          /\ best' = afterFailure(best)
          /\ UNCHANGED bookmakers
     ELSE LET ev == selectEvent(rsp.events, req.team)
          IN  IF Truthy(ev) /\ ev.bookmakers.t = "array"
              THEN /\ bookmakers' = ev.bookmakers.a
                   /\ pc' = IF ev.bookmakers.a = <<>> THEN "build" ELSE "scan"
                   /\ UNCHANGED best
              ELSE /\ pc' = "build"
                   /\ best' = afterFailure(best)
                   /\ UNCHANGED bookmakers
  /\ UNCHANGED <<ODDS_API_KEY, req, marketKey, i, requests, out, seen, pickVars>>

\* One iteration of the for loop.  A bookmaker that is null makes b.markets
\* throw: the catch block ends the loop.
ScanBookmaker ==
  /\ pc = "scan"
  /\ i <= Len(bookmakers)
  /\ IF IsNullish(bookmakers[i])
     THEN /\ pc' = "build"
          /\ best' = afterFailure(best)
          /\ UNCHANGED i
     ELSE /\ best' = scanOne(bookmakers[i], marketKey, req, best)
          /\ i' = i + 1
          /\ pc' = IF i = Len(bookmakers) THEN "build" ELSE "scan"
  /\ UNCHANGED <<ODDS_API_KEY, req, resp, marketKey, bookmakers, requests, out,
                 seen, pickVars>>

\* The mapping is built and returned.
Return ==
  /\ pc = "build"
  /\ out' = BuildOut(best, marketKey)
  /\ pc' = "done"
  /\ UNCHANGED <<ODDS_API_KEY, req, resp, marketKey, best, bookmakers, i,
                 requests, seen, pickVars>>

NoneSeen == [t |-> "undefined"]

\* No invocation has been made yet.
FetchIdle ==
  /\ pc = "idle"
  /\ req = Undef
  /\ resp = Undef
  /\ marketKey = H2H
  /\ best = Null
  /\ bookmakers = <<>>
  /\ i = 1
  /\ requests = 0
  /\ out = EmptyMapping
  /\ seen = NoneSeen

PickOff ==
  /\ pickIn = Undef
  /\ pickOut = Undef
  /\ pickPc = "off"

\* The process starts with or without an API key in its environment.
Init ==
  /\ ODDS_API_KEY \in {<<>>, Key}
  /\ FetchIdle
  /\ PickOff

\* One invocation, of any request, against any response.
Next ==
  \/ pc = "idle" /\ \E r \in Requests : Call(r)
  \/ pc = "awaitFetch" /\ \E rsp \in Responses(marketKey) : Respond(rsp)
  \/ ScanBookmaker
  \/ Return

Spec == Init /\ [][Next]_vars


\* ------------------------------------------- repeated invocations of one process
\* The requests and responses of the repeated invocations: with and without a
\* line, two markets; a failed call, and events whose bookmakers offer the
\* market or are null.
FewRequests ==
  {Request(Nfl, m, Jets, <<>>, Undef, Undef, Arr(<<BookKeys[1], BookKeys[2]>>), ln) :
     m \in {<<"M", "L">>, <<"S", "p", "r", "e", "a", "d">>}, ln \in {Undef, Str(<<"1", "2", "0">>)}}

FewResponses(mk) ==
  {Response("status", Undef)}
  \cup {Response("json", Arr(<<Event(NYJets, Bills, Arr(l))>>)) :
          l \in UNION {{x \in BookmakerLists(n, mk, {Num(-150), Num(150)}) :
                          \A k \in 1..n : x[k] = Null \/ Truthy(findMarket(x[k], mk))} :
                        n \in 0..MaxBookmakers}}

\* The caller of fetchOddsAndNormalize keeps what an invocation returned, with
\* what it was called with and what the upstream answered.
Keep ==
  /\ pc = "done"
  /\ seen = NoneSeen
  /\ seen' = [t |-> "object", req |-> req, resp |-> resp, out |-> out]
  /\ UNCHANGED <<ODDS_API_KEY, pc, req, resp, marketKey, best, bookmakers, i,
                 requests, out, pickVars>>

InitTwice ==
  /\ ODDS_API_KEY = Key
  /\ FetchIdle
  /\ PickOff

\* Invocation after invocation in one process, one of them kept.
NextTwice ==
  \/ pc \in {"idle", "done"} /\ \E r \in FewRequests : Call(r)
  \/ pc = "awaitFetch" /\ \E rsp \in FewResponses(marketKey) : Respond(rsp)
  \/ ScanBookmaker
  \/ Return
  \/ Keep

SpecTwice == InitTwice /\ [][NextTwice]_vars

\* ------------------------------------------------------- pickOutcome on its own
\* spreadPoint ? Number(spreadPoint) : null, of a query parameter
queryPoint(q) == IF Truthy(q) THEN ToNumber(q) ELSE Null

\* The target point of a call: omitted, or what the GET /odds handler passes
\* for a parameter that is absent, "2", "0" or not a number.
Targets ==
  {Undef} \cup {queryPoint(q) : q \in {Undef, Str(<<"2">>), Str(<<"0">>), Str(<<"x">>)}}

\* The point of an upstream outcome: absent, null or a number.
Points == {Undef, Null, Num(-1), Num(1), Num(3)}

RECURSIVE OutcomeLists(_, _)
\* The arrays of n outcomes with the given names; the k-th outcome's price is
\* -100 - k, so that the outcomes of an array are all different.
OutcomeLists(n, names) ==
  IF n = 0 THEN {<<>>}
  ELSE {Append(l, Outcome(nm, pt, Num(-100 - n))) :
          l \in OutcomeLists(n - 1, names), nm \in names, pt \in Points}

OutcomeArrays(names) ==
  {Undef} \cup {Arr(l) : l \in UNION {OutcomeLists(n, names) : n \in 0..MaxOutcomes}}

PickInput(mk, outcomes, team, side, spreadPoint, totalPoint) ==
  [marketKey |-> mk, outcomes |-> outcomes,
   crit |-> [team |-> team, side |-> side, spreadPoint |-> spreadPoint,
             totalPoint |-> totalPoint]]

\* The calls of pickOutcome explored: the selection criteria a market does not
\* read are left out.
IsPickInput(x) ==
  \/ \E mk \in {H2H, <<"p", "r", "o", "p", "s">>}, os \in OutcomeArrays({JETS, Bills}),
        tm \in {<<>>, Jets} :
       x = PickInput(mk, os, tm, <<>>, Undef, Undef)
  \/ \E os \in OutcomeArrays({JETS, Bills}), tm \in {<<>>, Jets}, sp \in Targets :
       x = PickInput(SPREADS, os, tm, <<>>, sp, Undef)
  \/ \E os \in OutcomeArrays({Over, UNDER}), sd \in {<<>>, <<"U", "n", "d", "e", "r">>},
        tp \in Targets :
       x = PickInput(TOTALS, os, <<>>, sd, Undef, tp)

Pick ==
  /\ pickPc = "ready"
  /\ pickOut' = pickOutcome(pickIn.marketKey, pickIn.outcomes, pickIn.crit)
  /\ pickPc' = "picked"
  /\ UNCHANGED <<fetchVars, pickIn>>

InitPick ==
  /\ ODDS_API_KEY = Key
  /\ FetchIdle
  /\ IsPickInput(pickIn)
  /\ pickOut = Undef
  /\ pickPc = "ready"

NextPick == Pick

SpecPick == InitPick /\ [][NextPick]_vars

\* ------------------------------------------------- what the claims speak about
\* The selection criteria of the request, as pickOutcome receives them.
CritOf(r) ==
  [team |-> r.team, side |-> r.side, spreadPoint |-> r.spreadPoint,
   totalPoint |-> r.totalPoint]

\* The bookmakers the for loop has been through.
Scanned == 1..(i - 1)

\* The outcome selected from a bookmaker that offers the market.
SelectedOf(b) == pickOutcome(marketKey, findMarket(b, marketKey).outcomes, CritOf(req))

\* The scanned bookmakers that offer the normalized market and whose selected
\* outcome carries a price.
Priced ==
  {j \in Scanned :
     /\ Truthy(findMarket(bookmakers[j], marketKey))
     /\ ~IsNullish(PriceOf(SelectedOf(bookmakers[j])))}

DecimalOf(j) == fromAmerican(PriceOf(SelectedOf(bookmakers[j]))).decimal

SeedGiven == Truthy(req.line)

SeedDecimal == fromAmerican(req.line).decimal

\* Every decimal the invocation has seen: the seed's and the scanned prices'.
SeenDecimals ==
  (IF SeedGiven THEN {SeedDecimal} ELSE {}) \cup {DecimalOf(j) : j \in Priced}

Started == pc \in {"awaitFetch", "scan", "build", "done"}

\* The mapping of an invocation that has the seed alone.
SeedOnly(line) ==
  IF Truthy(line)
  THEN ("Odds (Am)" :> ToStr(line))
       @@ ("Decimal" :> fromAmerican(line).decimal)
       @@ ("Implied %" :> PctString(fromAmerican(line).impliedPct))
  ELSE EmptyMapping

\* C1: the decimal of best, and the Decimal returned, is one of the decimals
\* seen (the seed's, if a line was given, and that of the selected outcome of
\* every scanned bookmaker offering the market) and none of them is greater;
\* with nothing seen there is no best and no Decimal.
C1_BestIsMaximum ==
  Started =>
    LET seenDecimals == SeenDecimals
    IN  /\ seenDecimals = {} => best = Null
        /\ seenDecimals # {} =>
             /\ best # Null
             /\ best.decimal \in seenDecimals
             /\ \A d \in seenDecimals : ~JsGreater(d, best.decimal)
        /\ pc = "done" =>
             IF seenDecimals = {} THEN out = EmptyMapping
             ELSE /\ "Decimal" \in DOMAIN out
                  /\ out["Decimal"] \in seenDecimals
                  /\ \A d \in seenDecimals : ~JsGreater(d, out["Decimal"])

\* A seeded invocation returned the price of the second of two priced
\* bookmakers, three different decimals having been seen.
C1_Witness ==
  /\ pc = "done"
  /\ SeedGiven
  /\ Priced = {1, 2}
  /\ Cardinality(SeenDecimals) = 3
  /\ "Book" \in DOMAIN out
  /\ out["Book"] = Str(BookKeys[2])

\* C2: a bookmaker's outcome becomes best only with a finite, non-zero price,
\* so a result that names a Book never has an empty Decimal.
C2_BookHasUsablePrice ==
  (pc = "done" /\ "Book" \in DOMAIN out) => out["Decimal"].t = "number"

\* The response of a failed outbound call: a rejected fetch, a non-success
\* status, a body that does not parse, an event list that is empty or no list,
\* or whose selected event has no bookmakers array.
Failed(rsp) ==
  \/ rsp.kind \in {"reject", "status", "badjson"}
  \/ /\ rsp.kind = "json"
     /\ \/ rsp.events.t # "array"
        \/ rsp.events.a = <<>>
        \/ selectEvent(rsp.events, req.team).bookmakers.t # "array"

\* C3: when the outbound call was made and failed, the invocation returns what
\* the seed alone gives: the converted line, or the empty mapping.
C3_FailureKeepsSeed ==
  (pc = "done" /\ requests = 1 /\ Failed(resp)) => out = SeedOnly(req.line)

\* A seeded invocation whose response body did not parse has returned.
C3_Witness ==
  /\ pc = "done"
  /\ requests = 1
  /\ resp.kind = "badjson"
  /\ SeedGiven
  /\ out # EmptyMapping

Ineligible ==
  \/ ODDS_API_KEY = <<>>
  \/ req.sportKey = <<>>
  \/ req.books.a = <<>>

Line120 == Str(<<"1", "2", "0">>)

\* C4: an invocation makes at most one outbound request, and none when it is
\* ineligible (no API key, no sportKey or no books); then the result is the
\* seed's alone: for line 120, Decimal 2.2 and Implied % 45.45, and no Book.
C4_AtMostOneRequest ==
  /\ requests <= 1
  /\ (Started /\ Ineligible) =>
       /\ requests = 0
       /\ resp = Undef
       /\ pc = "done" => out = SeedOnly(req.line)
       /\ (pc = "done" /\ req.line = Line120) =>
            out = ("Odds (Am)" :> <<"1", "2", "0">>)
                  @@ ("Decimal" :> Num(22000))
                  @@ ("Implied %" :> <<"4", "5", ".", "4", "5", "%">>)

\* Without an API key, a request with sportKey, books and line 120 returned.
C4_Witness ==
  /\ pc = "done"
  /\ ODDS_API_KEY = <<>>
  /\ req.sportKey # <<>>
  /\ req.books.a # <<>>
  /\ req.line = Line120

\* C5: the mapping has a Point exactly when the market key is not h2h and the
\* winning best has a matched point, and it is then that outcome's point.
C5_PointIffNotH2H ==
  pc = "done" =>
    /\ ("Point" \in DOMAIN out) <=>
         (marketKey # H2H /\ best # Null /\ ~IsNullish(best.pickedPoint))
    /\ "Point" \in DOMAIN out => out["Point"] = best.pickedPoint

\* C9: the market key of an invocation is one of h2h, spreads, totals.
C9_MarketKeyInEnum == Started => marketKey \in {H2H, SPREADS, TOTALS}

\* The priced bookmakers whose decimal is the one returned.
Winners == {j \in Priced : DecimalOf(j) = out["Decimal"]}

Least(S) == CHOOSE j \in S : \A k \in S : j <= k

\* C10: on equal decimals the earlier candidate wins.  A seed that no scanned
\* price exceeds is returned, without a Book; a Book returned is that of the
\* first scanned bookmaker with the returned decimal.
C10_EarlierWinsTies ==
  pc = "done" =>
    LET priced == Priced
        winners == {j \in priced : DecimalOf(j) = out["Decimal"]}
    IN  /\ (SeedGiven /\ \A j \in priced : ~JsGreater(DecimalOf(j), SeedDecimal)) =>
             /\ "Book" \notin DOMAIN out
             /\ out["Odds (Am)"] = ToStr(req.line)
        /\ "Book" \in DOMAIN out =>
             /\ winners # {}
             /\ out["Book"] = Str(bookmakers[Least(winners)].key)
             /\ out["Odds (Am)"] = ToStr(PriceOf(SelectedOf(bookmakers[Least(winners)])))

\* Two bookmakers with different prices of the same, maximal decimal were
\* scanned and the first one's Book is returned.
C10_Witness ==
  /\ pc = "done"
  /\ Cardinality(Winners) = 2
  /\ "Book" \in DOMAIN out
  /\ out["Book"] = Str(BookKeys[1])
  /\ PriceOf(SelectedOf(bookmakers[1])) # PriceOf(SelectedOf(bookmakers[2]))


\* C6: an invocation with the request and the upstream response of an earlier
\* one of the same process returns the same mapping, whatever ran in between.
C6_SameInputsSameResult ==
  (pc = "done" /\ seen # NoneSeen /\ seen.req = req /\ seen.resp = resp) =>
    out = seen.out

\* A later invocation repeated a kept one that had scanned a bookmaker and
\* returned its Book.
C6_Witness ==
  /\ pc = "done"
  /\ seen # NoneSeen
  /\ seen.req = req
  /\ seen.resp = resp
  /\ "Book" \in DOMAIN out

\* The outcomes pickOutcome was given, and the positions of those its filter
\* keeps: by team for spreads, by side for totals.
PickOutcomes == IF pickIn.outcomes.t = "array" THEN pickIn.outcomes.a ELSE <<>>

PickTarget ==
  IF pickIn.marketKey = SPREADS THEN pickIn.crit.spreadPoint ELSE pickIn.crit.totalPoint

Filtered ==
  {k \in 1..Len(PickOutcomes) :
     ToLower(NameOf(PickOutcomes[k])) =
       IF pickIn.marketKey = SPREADS THEN ToLower(pickIn.crit.team)
       ELSE wantedSide(pickIn.crit.side)}

FinitePoint(k) == IsFinite(ToNumber(PointOf(PickOutcomes[k])))

Distance(k) == Abs(ToNumber(PointOf(PickOutcomes[k])).n - PickTarget.n)

C8_NoTargetFirstFiltered ==
  (pickPc = "picked" /\ pickIn.marketKey \in {SPREADS, TOTALS}
     /\ IsNullish(PickTarget)) =>
    pickOut = IF Filtered = {} THEN Null ELSE PickOutcomes[Least(Filtered)]

=============================================================================
